---- MODULE Spec2Model ----
(***************************************************************************)
(* Model of src/database.py: the query-based record layer.                 *)
(*   Object      identity-cached model base (__new__ / __init__ / update)  *)
(*   Query       query container                                           *)
(*   Singleton   one-instance allocation                                   *)
(*   Database    connection gateway over one psycopg2 connection           *)
(*   Options, UserTablesStats, RandomCoordinates   the concrete models     *)
(* Python objects live in a heap (a sequence; an object's identity is its  *)
(* index), a reference is an index, None is modelled per type (see each    *)
(* definition).  The SQL engine behind psycopg2 is modelled by what the    *)
(* statements of this file do to the one table they use.                   *)
(***************************************************************************)
EXTENDS Integers, Sequences, FiniteSets, TLC

\* ------------------------------------------------------------------ bounds
\* Most calls a run makes (longer runs are not explored).
MaxOps == 6
\* Corner coordinates of RandomCoordinates.pick are drawn from 0..MaxCoord.
MaxCoord == 1

\* --------------------------------------------------------------- constants
DB_LOGIN == "user"
DB_PASSWORD == "password"
DB_NAME == "database"
DB_HOST == "localhost"
DB_PORT == 5432

\* None, where the value it stands beside is a string.
NoneStr == "None"
\* None, where the value it stands beside is an object or connection number.
NoneRef == 0

\* Exceptions, by the name of what is raised; NoExc: the call returned.
NoExc == "ok"
NoConnection == "RuntimeError: No database connection"
AlreadyConnected == "RuntimeError: Database connection already exists"
KeyError == "KeyError"
TypeError == "TypeError"
AttributeError == "AttributeError"
ValueError == "ValueError"
EngineError == "psycopg2.Error"
IndexError == "IndexError"

\* ------------------------------------------------------------ dictionaries
\* A Python dict is a function; {} is the empty function.
EmptyDict == <<>>

\* dict.update(kwargs): new names added, existing names overwritten.
DictUpdate(d, kwargs) ==
    [k \in (DOMAIN d) \cup (DOMAIN kwargs) |->
        IF k \in DOMAIN kwargs THEN kwargs[k] ELSE d[k]]

Min(a, b) == IF a <= b THEN a ELSE b
Max(a, b) == IF a >= b THEN a ELSE b

\* --------------------------------------------------------------- classes
\* The classes of the file, and SubOptions, a subclass of Options that a
\* caller declares with an empty body (class SubOptions(Options): pass).
Classes == {"Object", "Options", "UserTablesStats", "RandomCoordinates", "SubOptions"}

\* The base class a class attribute lookup falls back to ("" for Object).
Parent(cls) ==
    CASE cls = "Object" -> ""
      [] cls = "SubOptions" -> "Options"
      [] OTHER -> "Object"

\* Mutant of HasPrimaryKey: the check for a missing primary key is gone, a
\* class without one is cached under its (empty) key tuple.
HasPrimaryKeyAlways(cls) == TRUE

\* cls.primary_key is not None
HasPrimaryKey(cls) == cls \in {"Options", "RandomCoordinates", "SubOptions"}

\* cls.primary_key, a tuple of column names (<<>> where it is None).
primary_key(cls) ==
    CASE cls \in {"Options", "SubOptions"} -> <<"name">>
      [] cls = "RandomCoordinates" -> <<"x", "y">>
      [] OTHER -> <<>>

\* A class's own _instance_map attribute: isset = FALSE is "not set on this
\* class" (the lookup then falls back to the parent's; Object's is None).
UnsetMap == [isset |-> FALSE, map |-> EmptyDict]

\* The class whose _instance_map a lookup of cls._instance_map finds
\* ("" when the lookup ends at Object's None).
RECURSIVE MapOwner(_, _)
MapOwner(im, cls) ==
    IF cls = "" THEN ""
    ELSE IF im[cls].isset THEN cls
    ELSE MapOwner(im, Parent(cls))

\* ------------------------------------------------------------------ Object
\* An outcome of a call: the world after it, the exception raised (NoExc if
\* none), and what it returned.
Outcome(w, exc, ret) == [w |-> w, exc |-> exc, ret |-> ret]

\* One statement after another: F of the outcome o of the first.
Then(o, F(_)) == CHOOSE r \in {F(v) : v \in {o}} : TRUE

\* object.__new__(cls): a fresh object with an empty __dict__.
Allocate(w, cls) ==
    [w EXCEPT !.heap = Append(@, [cls |-> cls, dict |-> EmptyDict])]

\* The cache key of kwargs: the primary-key columns' values, in declared order.
CacheKey(cls, kwargs) == [i \in 1..Len(primary_key(cls)) |-> kwargs[primary_key(cls)[i]]]

\* Mutant of ObjectNew: the cache is not consulted, every construction
\* allocates and stores the new instance under the key.
ObjectNewNoLookup(w, cls, kwargs) ==
    IF ~HasPrimaryKey(cls)
    THEN Outcome(Allocate(w, cls), NoExc, Len(w.heap) + 1)
    ELSE
      LET w1 == IF MapOwner(w.instance_map, cls) = ""
                THEN [w EXCEPT !.instance_map[cls] = [isset |-> TRUE, map |-> EmptyDict]]
                ELSE w
          owner == MapOwner(w1.instance_map, cls)
          pk == primary_key(cls)
      IN IF \E i \in 1..Len(pk) : pk[i] \notin DOMAIN kwargs
         THEN Outcome(w1, KeyError, NoneRef)
         ELSE
           LET cache_key == CacheKey(cls, kwargs)
               cached == w1.instance_map[owner].map
               obj == Len(w1.heap) + 1
               w2 == Allocate(w1, cls)
           IN Outcome(
                [w2 EXCEPT !.instance_map[owner].map =
                    [k \in (DOMAIN cached) \cup {cache_key} |->
                        IF k = cache_key THEN obj ELSE cached[k]]],
                NoExc, obj)

\* Mutant of ObjectNew: a missing primary-key attribute reads as None
\* (kwargs.get(column)), and the instance is cached under that key.
ObjectNewDefaultKey(w, cls, kwargs) ==
    IF ~HasPrimaryKey(cls)
    THEN Outcome(Allocate(w, cls), NoExc, Len(w.heap) + 1)
    ELSE
      LET w1 == IF MapOwner(w.instance_map, cls) = ""
                THEN [w EXCEPT !.instance_map[cls] = [isset |-> TRUE, map |-> EmptyDict]]
                ELSE w
          owner == MapOwner(w1.instance_map, cls)
          pk == primary_key(cls)
          cache_key == [i \in 1..Len(pk) |->
                          IF pk[i] \in DOMAIN kwargs THEN kwargs[pk[i]] ELSE NoneStr]
          cached == w1.instance_map[owner].map
      IN IF cache_key \in DOMAIN cached
         THEN Outcome(w1, NoExc, cached[cache_key])
         ELSE LET obj == Len(w1.heap) + 1
                  w2 == Allocate(w1, cls)
              IN Outcome(
                   [w2 EXCEPT !.instance_map[owner].map =
                       [k \in (DOMAIN cached) \cup {cache_key} |->
                           IF k = cache_key THEN obj ELSE cached[k]]],
                   NoExc, obj)

\* Object.__new__(cls, **kwargs); returns the object (NoneRef on an exception).
ObjectNew(w, cls, kwargs) ==
    IF ~HasPrimaryKey(cls)
    THEN Outcome(Allocate(w, cls), NoExc, Len(w.heap) + 1)
    ELSE
      LET w1 == IF MapOwner(w.instance_map, cls) = ""
                THEN [w EXCEPT !.instance_map[cls] = [isset |-> TRUE, map |-> EmptyDict]]
                ELSE w
          owner == MapOwner(w1.instance_map, cls)
          pk == primary_key(cls)
      IN IF \E i \in 1..Len(pk) : pk[i] \notin DOMAIN kwargs
         THEN Outcome(w1, KeyError, NoneRef)
         ELSE
           LET cache_key == CacheKey(cls, kwargs)
               cached == w1.instance_map[owner].map
           IN IF cache_key \in DOMAIN cached
              THEN Outcome(w1, NoExc, cached[cache_key])
              ELSE LET obj == Len(w1.heap) + 1
                       w2 == Allocate(w1, cls)
                   IN Outcome(
                        [w2 EXCEPT !.instance_map[owner].map =
                            [k \in (DOMAIN cached) \cup {cache_key} |->
                                IF k = cache_key THEN obj ELSE cached[k]]],
                        NoExc, obj)

\* Object.__init__(self, **kwargs)
ObjectInit(w, self, kwargs) ==
    [w EXCEPT !.heap[self].dict = DictUpdate(@, kwargs)]

\* Mutant of ObjectUpdate: the attributes are replaced, not merged.
ObjectUpdateReplace(w, self, kwargs) ==
    [w EXCEPT !.heap[self].dict = kwargs]

\* Object.update(self, **kwargs)
ObjectUpdate(w, self, kwargs) ==
    [w EXCEPT !.heap[self].dict = DictUpdate(@, kwargs)]

\* Mutant of Construct: __init__ runs on a newly allocated instance only.
ConstructFirstWins(w, cls, kwargs) ==
    LET n == ObjectNew(w, cls, kwargs)
    IN IF n.exc # NoExc THEN n
       ELSE IF Len(n.w.heap) = Len(w.heap) THEN n
       ELSE Outcome(ObjectInit(n.w, n.ret, kwargs), NoExc, n.ret)

\* cls(**kwargs): type.__call__ runs __new__, then __init__ on what it
\* returned (every object __new__ returns here is an instance of cls).
Construct(w, cls, kwargs) ==
    Then(ObjectNew(w, cls, kwargs),
         LAMBDA n :
           IF n.exc # NoExc THEN n
           ELSE Outcome(ObjectInit(n.w, n.ret, kwargs), NoExc, n.ret))

\* ------------------------------------------------------------------- Query
\* A Query as a record of its two attributes; isdict[i] is
\* isinstance(args[i], dict).  The positional arguments of this model are
\* strings, so only the dict of the named arguments is one.
QueryObject(query_string, args, isdict) ==
    [query_string |-> query_string, args |-> args, isdict |-> isdict]

\* A tuple of n strings: none of them is a dict.
NoDicts(args) == [i \in 1..Len(args) |-> FALSE]

\* Mutant of QueryInit: the check of the two kinds of arguments is gone, the
\* named arguments win.
QueryInitUnchecked(query_string, args, kwargs) ==
    [exc |-> NoExc,
     ret |-> IF DOMAIN kwargs # {} THEN QueryObject(query_string, <<kwargs>>, <<TRUE>>)
             ELSE QueryObject(query_string, args, NoDicts(args))]

\* Mutant of QueryInit: the check of the two kinds of arguments is gone, the
\* dict of the named arguments is kept after the positional ones.
QueryInitKeepsBoth(query_string, args, kwargs) ==
    [exc |-> NoExc,
     ret |-> IF DOMAIN kwargs # {}
             THEN QueryObject(query_string, Append(args, kwargs), Append(NoDicts(args), TRUE))
             ELSE QueryObject(query_string, args, NoDicts(args))]

\* Query.__init__(query_string, *args, **kwargs): args a tuple, kwargs a
\* dict; returns the Query (none when it raises).
QueryInit(query_string, args, kwargs) ==
    IF Len(args) > 0 /\ DOMAIN kwargs # {}
    THEN [exc |-> ValueError, ret |-> QueryObject(query_string, <<>>, <<>>)]
    ELSE [exc |-> NoExc,
          ret |-> IF DOMAIN kwargs # {} THEN QueryObject(query_string, <<kwargs>>, <<TRUE>>)
                  ELSE QueryObject(query_string, args, NoDicts(args))]

\* Query(query_string, **kwargs), as the models call it.
Query(query_string, kwargs) == QueryInit(query_string, <<>>, kwargs).ret

\* The statements of this file.
SQL_SELECT_ALL == "SELECT * FROM options ORDER BY LOWER(name)"
SQL_SELECT_ONE == "SELECT * FROM options WHERE name = %(name)s"
SQL_INSERT_RETURNING ==
    "INSERT INTO options (name, value) VALUES (%(name)s, %(value)s) RETURNING *"
SQL_UPDATE == "UPDATE options SET value = %(value)s WHERE name = %(name)s RETURNING *"
SQL_CREATE == "CREATE TABLE options (name TEXT NOT NULL PRIMARY KEY, value TEXT NOT NULL)"
SQL_INSERT == "INSERT INTO options (name, value) VALUES (%(name)s, %(value)s)"
SQL_DROP == "DROP TABLE options"
SQL_STATS ==
    "SELECT schemaname AS schema, relname AS table, seq_scan, idx_scan, now() as timestamp FROM pg_stat_user_tables"
SQL_RANDOM ==
    "SELECT (RANDOM() * %(width)s + %(min_x)s)::int AS x, (RANDOM() * %(height)s + %(min_y)s)::int AS y;"

\* Two statements a caller may write with positional placeholders.
SQL_ECHO_ONE == "SELECT %s"
SQL_ECHO_TWO == "SELECT %s, %s"

\* A statement as the % operator and the driver read it: literal text,
\* %(name)s placeholders and %s placeholders, in order.
Lit(text) == [ph |-> "", text |-> text]
Named(name) == [ph |-> "named", text |-> name]
Positional == [ph |-> "positional", text |-> ""]

Template(query_string) ==
    CASE query_string = SQL_SELECT_ONE ->
           <<Lit("SELECT * FROM options WHERE name = "), Named("name")>>
      [] query_string = SQL_INSERT_RETURNING ->
           <<Lit("INSERT INTO options (name, value) VALUES ("), Named("name"), Lit(", "),
             Named("value"), Lit(") RETURNING *")>>
      [] query_string = SQL_UPDATE ->
           <<Lit("UPDATE options SET value = "), Named("value"), Lit(" WHERE name = "),
             Named("name"), Lit(" RETURNING *")>>
      [] query_string = SQL_INSERT ->
           <<Lit("INSERT INTO options (name, value) VALUES ("), Named("name"), Lit(", "),
             Named("value"), Lit(")")>>
      [] query_string = SQL_RANDOM ->
           <<Lit("SELECT (RANDOM() * "), Named("width"), Lit(" + "), Named("min_x"),
             Lit(")::int AS x, (RANDOM() * "), Named("height"), Lit(" + "), Named("min_y"),
             Lit(")::int AS y;")>>
      [] query_string = SQL_ECHO_ONE -> <<Lit("SELECT "), Positional>>
      [] query_string = SQL_ECHO_TWO -> <<Lit("SELECT "), Positional, Lit(", "), Positional>>
      [] OTHER -> <<Lit(query_string)>>

\* The %(name)s placeholders of a statement.
Placeholders(query_string) ==
    LET t == Template(query_string)
    IN {t[i].text : i \in {j \in 1..Len(t) : t[j].ph = "named"}}

\* The number of %s placeholders of a statement.
PositionalCount(query_string) ==
    LET t == Template(query_string)
    IN Cardinality({j \in 1..Len(t) : t[j].ph = "positional"})

\* repr(value): the arguments named width, height, min_x, min_y are ints,
\* every other argument of this model is a str without quotes or escapes.
IntNames == {"width", "height", "min_x", "min_y"}
Repr(name, value) ==
    IF name \in IntNames THEN ToString(value) ELSE "'" \o value \o "'"

\* repr(s) of a str that holds single quotes and no double quotes, as the
\* repr of a str does.
ReprQuoted(s) == "\"" \o s \o "\""

\* ", ".join(items)
RECURSIVE Join(_)
Join(items) ==
    IF Len(items) = 0 THEN ""
    ELSE IF Len(items) = 1 THEN items[1]
    ELSE items[1] \o ", " \o Join(Tail(items))

\* str(a list of reprs): each item shown by its own repr.
StrList(items) == "[" \o Join([i \in 1..Len(items) |-> ReprQuoted(items[i])]) \o "]"

\* The keyword names of this model in the order the call sites write them,
\* which is the order a dict of them keeps.
KeywordOrder == <<"name", "value", "width", "height", "min_x", "min_y">>

\* str(a dict of reprs)
StrDict(d) ==
    LET names == SelectSeq(KeywordOrder, LAMBDA n : n \in DOMAIN d)
    IN "{" \o Join([i \in 1..Len(names) |->
                       "'" \o names[i] \o "': " \o ReprQuoted(d[names[i]])]) \o "}"

\* The text of tokens whose placeholders pieces fills in, token by token.
RECURSIVE Concat(_)
Concat(pieces) == IF Len(pieces) = 0 THEN "" ELSE pieces[1] \o Concat(Tail(pieces))

\* query_string % query_args, query_args a dict or a list.  Neither is a
\* tuple, so each is ONE argument of the format: a %(name)s looks the name
\* up in it (a list refuses a str index), a first %s shows the whole of it,
\* a second %s finds no argument left.  [exc, ret]
Format(query_string, query_args, isdict) ==
    LET t == Template(query_string)
        named == Placeholders(query_string)
        count == PositionalCount(query_string)
        whole == IF isdict THEN StrDict(query_args) ELSE StrList(query_args)
        piece(i) == CASE t[i].ph = "named" -> query_args[t[i].text]
                      [] t[i].ph = "positional" -> whole
                      [] OTHER -> t[i].text
    IN IF named # {} /\ ~isdict THEN [exc |-> TypeError, ret |-> ""]
       ELSE IF isdict /\ ~(named \subseteq DOMAIN query_args) THEN [exc |-> KeyError, ret |-> ""]
       ELSE IF count > 1 THEN [exc |-> TypeError, ret |-> ""]
       ELSE [exc |-> NoExc, ret |-> Concat([i \in 1..Len(t) |-> piece(i)])]

\* Query.__repr__(self)  [exc, ret]
QueryRepr(self) ==
    IF Len(self.args) = 1 /\ self.isdict[1]
    THEN Format(self.query_string,
                [name \in DOMAIN self.args[1] |-> Repr(name, self.args[1][name])], TRUE)
    ELSE Format(self.query_string,
                [i \in 1..Len(self.args) |-> Repr("", self.args[i])], FALSE)

\* ------------------------------------------------------------------ engine
\* The options table: exists = FALSE is "no such table"; rows maps a name
\* (the primary key) to its value.
NoTable == [exists |-> FALSE, rows |-> EmptyDict]

\* The names the statements of this model use, in ORDER BY LOWER(name) order.
SortedNames == <<"fifth", "first", "forth", "second", "third">>

\* The names of a table's rows in ORDER BY LOWER(name) order.
OrderedNames(rows) == SelectSeq(SortedNames, LAMBDA n : n \in DOMAIN rows)

\* Counter values pg_stat_user_tables may report: sequential scans, index scans.
SeqScanCounts == {0, 1}
IdxScanCounts == {0}

\* What the engine decides by itself for one statement: the counters of
\* pg_stat_user_tables and the two RANDOM() draws, as rx/MaxCoord, ry/MaxCoord.
Envs == [seq_scan : SeqScanCounts, idx_scan : IdxScanCounts, rx : 0..MaxCoord, ry : 0..MaxCoord]

\* (r/MaxCoord * span + low)::int, the cast rounding to the nearest integer.
RandomInt(r, span, low) == low + (2 * r * span + MaxCoord) \div (2 * MaxCoord)

\* A cursor after execute: the rows (tuples) not yet fetched and the names
\* of cursor.description (<<>> for a statement that returns no rows).
Cursor(rows, description) == [rows |-> rows, description |-> description]

\* The engine runs one statement in the connection's open transaction:
\* [err, table, cursor].  An error leaves the table as it was.
EngineRun(table, query_string, vars, env) ==
    LET fail == [err |-> TRUE, table |-> table, cursor |-> Cursor(<<>>, <<>>)]
        done(t, rows, description) ==
            [err |-> FALSE, table |-> t, cursor |-> Cursor(rows, description)]
        cols == <<"name", "value">>
    IN CASE query_string = SQL_RANDOM ->
              done(table,
                   << <<RandomInt(env.rx, vars["width"], vars["min_x"]),
                        RandomInt(env.ry, vars["height"], vars["min_y"])>> >>,
                   <<"x", "y">>)
         [] query_string = SQL_ECHO_ONE ->
              done(table, << <<vars[1]>> >>, <<"?column?">>)
         [] query_string = SQL_ECHO_TWO ->
              done(table, << <<vars[1], vars[2]>> >>, <<"?column?", "?column?">>)
         [] query_string = SQL_STATS ->
              done(table,
                   IF table.exists
                   THEN << <<"public", "options", env.seq_scan, env.idx_scan, "now()">> >>
                   ELSE <<>>,
                   <<"schema", "table", "seq_scan", "idx_scan", "timestamp">>)
         [] query_string = SQL_CREATE ->
              IF table.exists THEN fail
              ELSE done([exists |-> TRUE, rows |-> EmptyDict], <<>>, <<>>)
         [] query_string = SQL_DROP ->
              IF ~table.exists THEN fail ELSE done(NoTable, <<>>, <<>>)
         [] query_string \in {SQL_INSERT, SQL_INSERT_RETURNING} ->
              IF ~table.exists \/ vars["name"] \in DOMAIN table.rows THEN fail
              ELSE LET n == vars["name"]
                       t == [table EXCEPT !.rows =
                               [k \in (DOMAIN table.rows) \cup {n} |->
                                   IF k = n THEN vars["value"] ELSE table.rows[k]]]
                   IN IF query_string = SQL_INSERT THEN done(t, <<>>, <<>>)
                      ELSE done(t, << <<n, vars["value"]>> >>, cols)
         [] query_string = SQL_UPDATE ->
              IF ~table.exists THEN fail
              ELSE IF vars["name"] \notin DOMAIN table.rows THEN done(table, <<>>, cols)
              ELSE done([table EXCEPT !.rows[vars["name"]] = vars["value"]],
                        << <<vars["name"], vars["value"]>> >>, cols)
         [] query_string = SQL_SELECT_ONE ->
              IF ~table.exists THEN fail
              ELSE IF vars["name"] \notin DOMAIN table.rows THEN done(table, <<>>, cols)
              ELSE done(table, << <<vars["name"], table.rows[vars["name"]]>> >>, cols)
         [] query_string = SQL_SELECT_ALL ->
              IF ~table.exists THEN fail
              ELSE LET names == OrderedNames(table.rows)
                   IN done(table,
                           [i \in 1..Len(names) |-> <<names[i], table.rows[names[i]]>>],
                           cols)
         [] OTHER -> fail

\* A str taken as a sequence: its characters.
Chars(s) ==
    CASE s = "" -> <<>>
      [] s = "xy" -> <<"x", "y">>
      [] OTHER -> <<s>>

\* The driver's reading of the one argument after the statement: a dict
\* serves the %(name)s placeholders (KeyError for a name it lacks), anything
\* else is a sequence of the %s placeholders' values, a str being the
\* sequence of its characters (IndexError for too few, TypeError for too
\* many).  [exc, vars], vars what the statement is sent with.
DriverBind(query_string, arg, isdict) ==
    LET named == Placeholders(query_string)
        count == PositionalCount(query_string)
    IN IF isdict
       THEN IF count > 0 THEN [exc |-> TypeError, vars |-> EmptyDict]
            ELSE IF ~(named \subseteq DOMAIN arg) THEN [exc |-> KeyError, vars |-> EmptyDict]
            ELSE [exc |-> NoExc, vars |-> arg]
       ELSE IF named # {} THEN [exc |-> TypeError, vars |-> EmptyDict]
            ELSE IF Len(arg) < count THEN [exc |-> IndexError, vars |-> EmptyDict]
            ELSE IF Len(arg) > count THEN [exc |-> TypeError, vars |-> EmptyDict]
            ELSE [exc |-> NoExc, vars |-> Chars(arg)]

\* cursor.execute(query_string, *args) on the connection's cursor.  More
\* than one argument after the statement is a TypeError of the call, and
\* an argument the driver cannot bind raises in the driver: neither reaches
\* the engine.  Without an argument the statement is sent as written.  A
\* statement in a failed transaction fails until the transaction ends, and a
\* failing statement fails the transaction.
CursorExecute(w, query_string, args, isdict, env) ==
    LET b == IF Len(args) = 1 THEN DriverBind(query_string, args[1], isdict[1])
             ELSE [exc |-> NoExc, vars |-> EmptyDict]
    IN
    IF Len(args) > 1 THEN Outcome(w, TypeError, Cursor(<<>>, <<>>))
    ELSE IF b.exc # NoExc THEN Outcome(w, b.exc, Cursor(<<>>, <<>>))
    ELSE
      LET w1 == [w EXCEPT !.sent = @ + 1,
                          !.bound = Append(@, [query_string |-> query_string,
                                               vars |-> b.vars])]
          r == EngineRun(w.working, query_string, b.vars, env)
          unbound == Len(args) = 0
                     /\ (Placeholders(query_string) # {} \/ PositionalCount(query_string) > 0)
      IN IF w.aborted \/ unbound
         THEN Outcome([w1 EXCEPT !.aborted = TRUE], EngineError, Cursor(<<>>, <<>>))
         ELSE IF r.err
         THEN Outcome([w1 EXCEPT !.aborted = TRUE], EngineError, Cursor(<<>>, <<>>))
         ELSE Outcome([w1 EXCEPT !.working = r.table], NoExc, r.cursor)

\* connection.commit(): a failed transaction ends as a rollback.
ConnectionCommit(w) ==
    IF w.aborted THEN [w EXCEPT !.working = w.committed, !.aborted = FALSE]
    ELSE [w EXCEPT !.committed = w.working]

\* connection.rollback()
ConnectionRollback(w) == [w EXCEPT !.working = w.committed, !.aborted = FALSE]

\* psycopg2.connect(...): reachable says whether the server accepts; a new
\* connection (numbered from 1) sees the committed state.
Connect(w, reachable) ==
    IF ~reachable THEN Outcome(w, EngineError, NoneRef)
    ELSE Outcome([w EXCEPT !.opened = @ + 1, !.working = w.committed, !.aborted = FALSE],
                 NoExc, w.opened + 1)

\* --------------------------------------------------------------- Singleton
\* A Database instance as constructed: the class attributes' values.
NewGateway == [connection |-> NoneRef, database |-> NoneStr, user |-> NoneStr]

\* Mutant of SingletonNew: every construction allocates an instance.
SingletonNewAlways(w) ==
    Outcome([w EXCEPT !.gateways = Append(@, NewGateway),
                      !.singleton = Len(w.gateways) + 1],
            NoExc, Len(w.gateways) + 1)

\* Singleton.__new__(cls), cls being Database; returns the instance.
SingletonNew(w) ==
    IF w.singleton = NoneRef
    THEN Outcome([w EXCEPT !.gateways = Append(@, NewGateway),
                           !.singleton = Len(w.gateways) + 1],
                 NoExc, Len(w.gateways) + 1)
    ELSE Outcome(w, NoExc, w.singleton)

\* ---------------------------------------------------------------- Database
\* Database.initialize(self, database, user, password, host, port)
DatabaseInitialize(w, self, database, user, password, host, port, reachable) ==
    IF w.gateways[self].connection # NoneRef
    THEN Outcome(w, AlreadyConnected, NoneRef)
    ELSE LET c == Connect(w, reachable)
         IN IF c.exc # NoExc THEN c
            ELSE Outcome([c.w EXCEPT !.gateways[self] =
                            [connection |-> c.ret, database |-> database, user |-> user]],
                         NoExc, NoneRef)

\* Mutant of GetConnection: the connection is returned unchecked.
GetConnectionUnchecked(w, self) ==
    Outcome(w, NoExc, w.gateways[self].connection)

\* Database._get_connection(self)
GetConnection(w, self) ==
    IF w.gateways[self].connection = NoneRef
    THEN Outcome(w, NoConnection, NoneRef)
    ELSE Outcome(w, NoExc, w.gateways[self].connection)

\* Database.commit(self)
DatabaseCommit(w, self) ==
    LET c == GetConnection(w, self)
    IN IF c.exc # NoExc THEN c ELSE Outcome(ConnectionCommit(w), NoExc, NoneRef)

\* Mutant of DatabaseRollback: it goes through _get_connection, as commit does.
DatabaseRollbackChecked(w, self) ==
    LET c == GetConnection(w, self)
    IN IF c.exc # NoExc THEN c ELSE Outcome(ConnectionRollback(w), NoExc, NoneRef)

\* Mutant of DatabaseRollback: the identity caches are dropped with the
\* transaction.
DatabaseRollbackForgets(w, self) ==
    IF w.gateways[self].connection # NoneRef
    THEN Outcome([ConnectionRollback(w) EXCEPT
                     !.instance_map = [c \in DOMAIN w.instance_map |-> UnsetMap]],
                 NoExc, NoneRef)
    ELSE Outcome(w, NoExc, NoneRef)

\* Database.rollback(self)
DatabaseRollback(w, self) ==
    IF w.gateways[self].connection # NoneRef
    THEN Outcome(ConnectionRollback(w), NoExc, NoneRef)
    ELSE Outcome(w, NoExc, NoneRef)

\* Database._get_cursor_for_query(self, query); returns the cursor.
GetCursorForQuery(w, self, query, env) ==
    LET c == GetConnection(w, self)
    IN IF c.exc # NoExc THEN Outcome(w, c.exc, Cursor(<<>>, <<>>))
       ELSE CursorExecute(w, query.query_string, query.args, query.isdict, env)

\* Database.execute(self, query)
DatabaseExecute(w, self, query, env) == GetCursorForQuery(w, self, query, env)

\* Database._get_column_names_from_cursor(self, cursor)
GetColumnNamesFromCursor(cursor) == cursor.description

\* {name: value for name, value in zip(names, row)}: zip stops at the
\* shorter, a repeated name keeps its last value.
ZipDict(names, row) ==
    LET n == Min(Len(names), Len(row))
    IN [k \in {names[i] : i \in 1..n} |->
          row[CHOOSE i \in 1..n : names[i] = k /\ \A j \in 1..n : names[j] = k => j <= i]]

\* Mutant of PopulateRowsWithNames: the records come in the reverse of the
\* rows' order.
PopulateRowsReversed(rows, names) ==
    [i \in 1..Len(rows) |-> ZipDict(names, rows[Len(rows) + 1 - i])]

\* Database._populate_rows_with_names(self, rows, names)
PopulateRowsWithNames(rows, names) ==
    [i \in 1..Len(rows) |-> ZipDict(names, rows[i])]

\* A record, or None: isnone tells which.
NoneRecord == [isnone |-> TRUE, rec |-> EmptyDict]
SomeRecord(rec) == [isnone |-> FALSE, rec |-> rec]

\* cursor.fetchone(): the next row, or None.
FetchOne(cursor) ==
    IF Len(cursor.rows) = 0 THEN [isnone |-> TRUE, row |-> <<>>]
    ELSE [isnone |-> FALSE, row |-> Head(cursor.rows)]

\* Mutant of DatabaseGetOne: no check for a missing row, so that naming the
\* columns of None raises.
DatabaseGetOneNoNoneCheck(w, self, query, env) ==
    LET c == GetCursorForQuery(w, self, query, env)
        row == FetchOne(c.ret)
    IN IF c.exc # NoExc THEN Outcome(c.w, c.exc, NoneRecord)
       ELSE IF row.isnone THEN Outcome(c.w, TypeError, NoneRecord)
       ELSE Outcome(c.w, NoExc,
                    SomeRecord(PopulateRowsWithNames(<<row.row>>,
                                                     GetColumnNamesFromCursor(c.ret))[1]))

\* Database.get_one(self, query); returns a record or None.
DatabaseGetOne(w, self, query, env) ==
    Then(GetCursorForQuery(w, self, query, env),
         LAMBDA c :
           LET row == FetchOne(c.ret)
           IN IF c.exc # NoExc THEN Outcome(c.w, c.exc, NoneRecord)
              ELSE IF row.isnone THEN Outcome(c.w, NoExc, NoneRecord)
              ELSE Outcome(c.w, NoExc,
                           SomeRecord(PopulateRowsWithNames(
                                        <<row.row>>, GetColumnNamesFromCursor(c.ret))[1])))

\* Database.get_all(self, query); returns a sequence of records.
DatabaseGetAll(w, self, query, env) ==
    Then(GetCursorForQuery(w, self, query, env),
         LAMBDA c :
           IF c.exc # NoExc THEN Outcome(c.w, c.exc, <<>>)
           ELSE Outcome(c.w, NoExc,
                        PopulateRowsWithNames(c.ret.rows, GetColumnNamesFromCursor(c.ret))))

\* ------------------------------------------------------------------ models
\* [cls(**info) for info in infos]; returns the list built (an exception
\* ends the comprehension and no list is returned).
RECURSIVE ConstructAll(_, _, _)
ConstructAll(w, cls, infos) ==
    IF Len(infos) = 0 THEN Outcome(w, NoExc, <<>>)
    ELSE Then(Construct(w, cls, Head(infos)),
              LAMBDA c :
                IF c.exc # NoExc THEN Outcome(c.w, c.exc, <<>>)
                ELSE Then(ConstructAll(c.w, cls, Tail(infos)),
                          LAMBDA rest :
                            IF rest.exc # NoExc THEN rest
                            ELSE Outcome(rest.w, NoExc, <<c.ret>> \o rest.ret)))

\* Options.get_all_options(cls)
OptionsGetAllOptions(w, env) ==
    LET db == SingletonNew(w)
    IN Then(DatabaseGetAll(db.w, db.ret, Query(SQL_SELECT_ALL, EmptyDict), env),
            LAMBDA options_info :
              IF options_info.exc # NoExc
              THEN Outcome(options_info.w, options_info.exc, <<>>)
              ELSE ConstructAll(options_info.w, "Options", options_info.ret))

\* Options.get_option(cls, name); returns the instance, or None (NoneRef).
OptionsGetOption(w, name, env) ==
    LET db == SingletonNew(w)
    IN Then(DatabaseGetOne(db.w, db.ret, Query(SQL_SELECT_ONE, [name |-> name]), env),
            LAMBDA option_info :
              IF option_info.exc # NoExc
              THEN Outcome(option_info.w, option_info.exc, NoneRef)
              ELSE IF option_info.ret.isnone \/ DOMAIN option_info.ret.rec = {}
              THEN Outcome(option_info.w, NoExc, NoneRef)
              ELSE Construct(option_info.w, "Options", option_info.ret.rec))

\* Options.add_option(cls, name, value); cls(**None) is a TypeError.
OptionsAddOption(w, name, value, env) ==
    LET db == SingletonNew(w)
    IN Then(DatabaseGetOne(db.w, db.ret,
                           Query(SQL_INSERT_RETURNING, [name |-> name, value |-> value]),
                           env),
            LAMBDA option_info :
              IF option_info.exc # NoExc
              THEN Outcome(option_info.w, option_info.exc, NoneRef)
              ELSE IF option_info.ret.isnone THEN Outcome(option_info.w, TypeError, NoneRef)
              ELSE Construct(option_info.w, "Options", option_info.ret.rec))

\* Mutant of OptionsUpdate: the row is updated, the instance is not.
OptionsUpdateRowOnly(w, self, value, env) ==
    LET db == SingletonNew(w)
        option_info ==
            DatabaseGetOne(db.w, db.ret,
                           Query(SQL_UPDATE,
                                 [name |-> w.heap[self].dict["name"], value |-> value]),
                           env)
    IN IF option_info.exc # NoExc THEN Outcome(option_info.w, option_info.exc, NoneRef)
       ELSE IF option_info.ret.isnone THEN Outcome(option_info.w, TypeError, NoneRef)
       ELSE Outcome(option_info.w, NoExc, NoneRef)

\* Options.update(self, value); update(**None) is a TypeError.
OptionsUpdate(w, self, value, env) ==
    LET db == SingletonNew(w)
    IN IF "name" \notin DOMAIN w.heap[self].dict
       THEN Outcome(db.w, AttributeError, NoneRef)
       ELSE
         Then(DatabaseGetOne(db.w, db.ret,
                             Query(SQL_UPDATE,
                                   [name |-> w.heap[self].dict["name"], value |-> value]),
                             env),
              LAMBDA option_info :
                IF option_info.exc # NoExc
                THEN Outcome(option_info.w, option_info.exc, NoneRef)
                ELSE IF option_info.ret.isnone
                THEN Outcome(option_info.w, TypeError, NoneRef)
                ELSE Outcome(ObjectUpdate(option_info.w, self, option_info.ret.rec),
                             NoExc, NoneRef))

\* The queries of Options.create_demo_table, in order.
DemoQueries ==
    << Query(SQL_CREATE, EmptyDict),
       Query(SQL_INSERT, [name |-> "first", value |-> "one"]),
       Query(SQL_INSERT, [name |-> "second", value |-> "two"]),
       Query(SQL_INSERT, [name |-> "third", value |-> "three"]),
       Query(SQL_INSERT, [name |-> "forth", value |-> "four"]) >>

\* for query in queries: Database().execute(query)
RECURSIVE ExecuteEach(_, _, _)
ExecuteEach(w, queries, env) ==
    IF Len(queries) = 0 THEN Outcome(w, NoExc, NoneRef)
    ELSE LET db == SingletonNew(w)
         IN Then(DatabaseExecute(db.w, db.ret, Head(queries), env),
                 LAMBDA e :
                   IF e.exc # NoExc THEN Outcome(e.w, e.exc, NoneRef)
                   ELSE ExecuteEach(e.w, Tail(queries), env))

\* Options.create_demo_table(cls)
OptionsCreateDemoTable(w, env) == ExecuteEach(w, DemoQueries, env)

\* Options.destroy_demo_table(cls)
OptionsDestroyDemoTable(w, env) ==
    ExecuteEach(w, <<Query(SQL_DROP, EmptyDict)>>, env)

\* UserTablesStats.get_stats(cls)
UserTablesStatsGetStats(w, env) ==
    LET db == SingletonNew(w)
    IN Then(DatabaseGetAll(db.w, db.ret, Query(SQL_STATS, EmptyDict), env),
            LAMBDA stats_info :
              IF stats_info.exc # NoExc THEN Outcome(stats_info.w, stats_info.exc, <<>>)
              ELSE ConstructAll(stats_info.w, "UserTablesStats", stats_info.ret))

\* Point(x, y)
Point(x, y) == [x |-> x, y |-> y]

\* RandomCoordinates.pick(cls, point1, point2)
RandomCoordinatesPick(w, point1, point2, env) ==
    LET min_x == Min(point1.x, point2.x)
        min_y == Min(point1.y, point2.y)
        max_x == Max(point1.x, point2.x)
        max_y == Max(point1.y, point2.y)
        db == SingletonNew(w)
    IN Then(DatabaseGetOne(db.w, db.ret,
                           Query(SQL_RANDOM,
                                 [width |-> max_x - min_x, height |-> max_y - min_y,
                                  min_x |-> min_x, min_y |-> min_y]),
                           env),
            LAMBDA coordinates_info :
              IF coordinates_info.exc # NoExc
              THEN Outcome(coordinates_info.w, coordinates_info.exc, NoneRef)
              ELSE IF coordinates_info.ret.isnone
              THEN Outcome(coordinates_info.w, TypeError, NoneRef)
              ELSE Construct(coordinates_info.w, "RandomCoordinates",
                             coordinates_info.ret.rec))

\* ------------------------------------------------------------------- state
VARIABLES
    heap,          \* the model instances: <<[cls, dict]>>, an instance is its index
    instance_map,  \* each class's own _instance_map attribute
    singleton,     \* Database._instance (NoneRef: None)
    gateways,      \* the Database instances: <<[connection, database, user]>>
    opened,        \* how many connections connect() has opened
    committed,     \* the options table as committed in the engine
    working,       \* the options table as the open transaction sees it
    aborted,       \* the open transaction has failed
    result,        \* the last call: what was called, with what, and its outcome
    ops,           \* how many calls the run has made
    main           \* the run of the script: where it is, its first_option, how it ended

vars == <<heap, instance_map, singleton, gateways, opened, committed, working,
          aborted, result, ops, main>>

\* The state as the operators take it; sent counts the statements the call
\* at hand has sent to the engine, bound lists them with their variables.
World ==
    [heap |-> heap, instance_map |-> instance_map, singleton |-> singleton,
     gateways |-> gateways, opened |-> opened, committed |-> committed,
     working |-> working, aborted |-> aborted, sent |-> 0, bound |-> <<>>]

\* No Query.
NoQuery == QueryObject("", <<>>, <<>>)

\* No call yet.
NoResult ==
    [op |-> "", cls |-> "", name |-> "", value |-> "", self |-> NoneRef,
     kwargs |-> EmptyDict, args |-> <<>>, query_string |-> "", reachable |-> FALSE,
     exc |-> NoExc, objs |-> <<>>, isnone |-> FALSE, recs |-> <<>>, sent |-> 0,
     bound |-> <<>>, query |-> NoQuery, text |-> ""]

\* The call `op` with arguments `a` ended as outcome `o`, having returned
\* the instances objs (isnone: it returned None) or the records recs.
Effect(op, a, o, objs, isnone, recs) ==
    /\ heap' = o.w.heap
    /\ instance_map' = o.w.instance_map
    /\ singleton' = o.w.singleton
    /\ gateways' = o.w.gateways
    /\ opened' = o.w.opened
    /\ committed' = o.w.committed
    /\ working' = o.w.working
    /\ aborted' = o.w.aborted
    /\ result' = [NoResult EXCEPT
                    !.op = op, !.cls = a.cls, !.name = a.name, !.value = a.value,
                    !.self = a.self, !.kwargs = a.kwargs, !.args = a.args,
                    !.query_string = a.query_string, !.reachable = a.reachable,
                    !.exc = o.exc, !.objs = objs, !.isnone = isnone, !.recs = recs,
                    !.sent = o.w.sent, !.bound = o.w.bound, !.query = a.query]

\* A call made outside the script, one of at most MaxOps.
Called(op, a, o, objs, isnone, recs) ==
    /\ ops < MaxOps
    /\ ops' = ops + 1
    /\ main' = main
    /\ Effect(op, a, o, objs, isnone, recs)

NoArgs == [cls |-> "", name |-> "", value |-> "", self |-> NoneRef,
           kwargs |-> EmptyDict, args |-> <<>>, query_string |-> "", reachable |-> FALSE,
           query |-> NoQuery]

\* What a call that returns one instance or None returned.
OneObj(o) == IF o.exc = NoExc /\ o.ret # NoneRef THEN <<o.ret>> ELSE <<>>
IsNone(o) == o.exc = NoExc /\ o.ret = NoneRef

\* ------------------------------------------------------------------ inputs
OptionNames == {"first", "fifth"}
AddValues == {"five"}
UpdateValues == {"The One"}
\* The corners RandomCoordinates.pick is called with.
Corners == {Point(0, 0), Point(MaxCoord, 0)}

\* Keyword arguments of direct constructions, per class: with and without
\* the primary-key names, equal keys with different other attributes.
ConstructArgs(cls) ==
    CASE cls = "Options" ->
           {[name |-> "first", value |-> "uno"], [name |-> "first", note |-> "n"],
            [value |-> "one"]}
      [] cls = "SubOptions" -> {[name |-> "first", value |-> "sub"]}
      [] cls = "RandomCoordinates" ->
           {[x |-> 0, y |-> 0, label |-> "a"], [x |-> 0]}
      [] cls = "UserTablesStats" ->
           {[schema |-> "public", table |-> "options", seq_scan |-> 0, idx_scan |-> 0,
             timestamp |-> "now()"]}
      [] OTHER -> {[label |-> "a"]}

\* Keyword arguments of Object.update, per class of the instance.
UpdateArgs(cls) ==
    CASE cls = "Options" -> {[value |-> "v2", note |-> "n"], [name |-> "fifth"]}
      [] cls = "RandomCoordinates" -> {[label |-> "b"]}
      [] cls = "UserTablesStats" -> {[seq_scan |-> 1]}
      [] OTHER -> {[label |-> "b"]}

Env0 == [seq_scan |-> 0, idx_scan |-> 0, rx |-> 0, ry |-> 0]

\* The engine's choices that a statement depends on.
EnvsFor(query_string) ==
    CASE query_string = SQL_STATS -> {e \in Envs : e.rx = 0 /\ e.ry = 0}
      [] query_string = SQL_RANDOM -> {e \in Envs : e.seq_scan = 0 /\ e.idx_scan = 0}
      [] OTHER -> {Env0}

\* Queries handed to the gateway directly.
GatewayQueries ==
    {Query(SQL_SELECT_ALL, EmptyDict)}
    \cup {Query(SQL_SELECT_ONE, [name |-> n]) : n \in OptionNames}

\* Query(...) as the models of the file call it, and as callers may: with
\* positional arguments, with both kinds, with arguments that do not fit
\* the statement.
QueryCalls ==
    LET call(query_string, args, kwargs) ==
            [query_string |-> query_string, args |-> args, kwargs |-> kwargs]
    IN <<call(SQL_SELECT_ALL, <<>>, EmptyDict),
         call(SQL_SELECT_ONE, <<>>, [name |-> "first"]),
         call(SQL_INSERT_RETURNING, <<>>, [name |-> "fifth", value |-> "five"]),
         call(SQL_UPDATE, <<>>, [name |-> "first", value |-> "The One"]),
         call(SQL_CREATE, <<>>, EmptyDict),
         call(SQL_INSERT, <<>>, [name |-> "first", value |-> "one"]),
         call(SQL_DROP, <<>>, EmptyDict),
         call(SQL_STATS, <<>>, EmptyDict),
         call(SQL_RANDOM, <<>>,
              [width |-> MaxCoord, height |-> MaxCoord, min_x |-> 0, min_y |-> 0]),
         call(SQL_ECHO_ONE, <<"x">>, EmptyDict),
         call(SQL_ECHO_ONE, <<"first">>, EmptyDict),
         call(SQL_ECHO_ONE, <<>>, EmptyDict),
         call(SQL_ECHO_TWO, <<"x", "y">>, EmptyDict),
         call(SQL_ECHO_TWO, <<"xy">>, EmptyDict),
         call(SQL_SELECT_ONE, <<"first">>, EmptyDict),
         call(SQL_SELECT_ONE, <<>>, [value |-> "one"]),
         call(SQL_SELECT_ONE, <<"first">>, [name |-> "first"]),
         call(SQL_ECHO_ONE, <<"x">>, [name |-> "first"])>>

\* The calls among them that construct a Query, and the Query of one.
Builds(c) == QueryInit(c.query_string, c.args, c.kwargs).exc = NoExc
Built(c) == QueryInit(c.query_string, c.args, c.kwargs).ret

\* The tables the engine may hold, committed, when the script starts.
MainTables == {NoTable, [exists |-> TRUE, rows |-> [n \in {"first"} |-> "one"]]}

\* range(5) of main
Picks == 5

\* ------------------------------------------------------------------ actions
\* Query(query_string, *args, **kwargs)
NewQuery(query_string, args, kwargs) ==
    LET o == QueryInit(query_string, args, kwargs)
    IN /\ ops < MaxOps
       /\ ops' = ops + 1
       /\ result' = [NoResult EXCEPT !.op = "Query", !.query_string = query_string,
                                     !.args = args, !.kwargs = kwargs,
                                     !.exc = o.exc,
                                     !.query = IF o.exc = NoExc THEN o.ret ELSE NoQuery]
       /\ UNCHANGED <<heap, instance_map, singleton, gateways, opened, committed,
                      working, aborted, main>>

\* repr(query)
ReprQuery(query) ==
    LET o == QueryRepr(query)
    IN /\ ops < MaxOps
       /\ ops' = ops + 1
       /\ result' = [NoResult EXCEPT !.op = "repr", !.query_string = query.query_string,
                                     !.query = query, !.exc = o.exc, !.text = o.ret]
       /\ UNCHANGED <<heap, instance_map, singleton, gateways, opened, committed,
                      working, aborted, main>>

\* cls(**kwargs)
ConstructObject(cls, kwargs) ==
    LET o == Construct(World, cls, kwargs)
    IN Called("construct", [NoArgs EXCEPT !.cls = cls, !.kwargs = kwargs], o,
              OneObj(o), FALSE, <<>>)

\* Object.update(self, **kwargs) on an instance of any class
BaseUpdate(self, kwargs) ==
    LET o == Outcome(ObjectUpdate(World, self, kwargs), NoExc, NoneRef)
    IN Called("Object.update",
              [NoArgs EXCEPT !.cls = heap[self].cls, !.self = self, !.kwargs = kwargs],
              o, <<>>, TRUE, <<>>)

\* Database().initialize(...) with the module's settings, as main calls it
Initialize(reachable) ==
    LET db == SingletonNew(World)
        o == DatabaseInitialize(db.w, db.ret, DB_NAME, DB_LOGIN, DB_PASSWORD,
                                DB_HOST, DB_PORT, reachable)
    IN Called("initialize", [NoArgs EXCEPT !.self = db.ret, !.reachable = reachable], o,
              <<>>, o.exc = NoExc, <<>>)

\* Database().commit()
Commit ==
    LET db == SingletonNew(World)
        o == DatabaseCommit(db.w, db.ret)
    IN Called("commit", [NoArgs EXCEPT !.self = db.ret], o, <<>>, o.exc = NoExc, <<>>)

\* Database().rollback()
Rollback ==
    LET db == SingletonNew(World)
        o == DatabaseRollback(db.w, db.ret)
    IN Called("rollback", [NoArgs EXCEPT !.self = db.ret], o, <<>>, o.exc = NoExc, <<>>)

GatewayArgs(db, query) ==
    [NoArgs EXCEPT !.self = db.ret, !.query_string = query.query_string, !.query = query,
                   !.kwargs = IF Len(query.args) = 1 /\ query.isdict[1]
                              THEN query.args[1] ELSE EmptyDict,
                   !.args = IF Len(query.args) = 1 /\ query.isdict[1]
                            THEN <<>> ELSE query.args]

\* Database().execute(query)
Execute(query, env) ==
    LET db == SingletonNew(World)
        o == DatabaseExecute(db.w, db.ret, query, env)
    IN Called("execute", GatewayArgs(db, query), o, <<>>, FALSE, <<>>)

\* Database().get_one(query)
GetOne(query, env) ==
    LET db == SingletonNew(World)
        o == DatabaseGetOne(db.w, db.ret, query, env)
    IN Called("get_one", GatewayArgs(db, query), o, <<>>,
              o.exc = NoExc /\ o.ret.isnone,
              IF o.exc = NoExc /\ ~o.ret.isnone THEN <<o.ret.rec>> ELSE <<>>)

\* Database().get_all(query)
GetAll(query, env) ==
    LET db == SingletonNew(World)
        o == DatabaseGetAll(db.w, db.ret, query, env)
    IN Called("get_all", GatewayArgs(db, query), o, <<>>, FALSE, o.ret)

\* Options.get_all_options()
GetAllOptions ==
    LET o == OptionsGetAllOptions(World, Env0)
    IN Called("get_all_options", [NoArgs EXCEPT !.cls = "Options"], o, o.ret, FALSE, <<>>)

\* Options.get_option(name)
GetOption(name) ==
    LET o == OptionsGetOption(World, name, Env0)
    IN Called("get_option", [NoArgs EXCEPT !.cls = "Options", !.name = name], o,
              OneObj(o), IsNone(o), <<>>)

\* Options.add_option(name, value)
AddOption(name, value) ==
    LET o == OptionsAddOption(World, name, value, Env0)
    IN Called("add_option",
              [NoArgs EXCEPT !.cls = "Options", !.name = name, !.value = value], o,
              OneObj(o), FALSE, <<>>)

\* self.update(value), self an Options instance
UpdateOption(self, value) ==
    LET o == OptionsUpdate(World, self, value, Env0)
    IN Called("Options.update",
              [NoArgs EXCEPT !.cls = "Options", !.self = self, !.value = value], o,
              <<>>, o.exc = NoExc, <<>>)

\* Options.create_demo_table()
CreateDemoTable ==
    LET o == OptionsCreateDemoTable(World, Env0)
    IN Called("create_demo_table", [NoArgs EXCEPT !.cls = "Options"], o, <<>>,
              o.exc = NoExc, <<>>)

\* Options.destroy_demo_table()
DestroyDemoTable ==
    LET o == OptionsDestroyDemoTable(World, Env0)
    IN Called("destroy_demo_table", [NoArgs EXCEPT !.cls = "Options"], o, <<>>,
              o.exc = NoExc, <<>>)

\* UserTablesStats.get_stats()
GetStats(env) ==
    LET o == UserTablesStatsGetStats(World, env)
    IN Called("get_stats", [NoArgs EXCEPT !.cls = "UserTablesStats"], o, o.ret, FALSE, <<>>)

\* RandomCoordinates.pick(point1, point2)
Pick(point1, point2, env) ==
    LET o == RandomCoordinatesPick(World, point1, point2, env)
    IN Called("pick", [NoArgs EXCEPT !.cls = "RandomCoordinates"], o, OneObj(o),
              FALSE, <<>>)

\* The script is not run; while it runs, pc is the statement it is at,
\* first_option main's variable, before the engine's committed table when
\* it started, exc what main raised.
NotRun == [pc |-> "", first_option |-> NoneRef, picks |-> 0, before |-> NoTable,
           exc |-> NoExc]

Init ==
    /\ heap = <<>>
    /\ instance_map = [c \in Classes |-> UnsetMap]
    /\ singleton = NoneRef
    /\ gateways = <<>>
    /\ opened = 0
    /\ committed = NoTable
    /\ working = NoTable
    /\ aborted = FALSE
    /\ result = NoResult
    /\ ops = 0
    /\ main = NotRun

\* The gateway's own operations.
NextGateway ==
    \/ \E reachable \in BOOLEAN : Initialize(reachable)
    \/ Commit
    \/ Rollback
    \/ \E query \in GatewayQueries : \E env \in EnvsFor(query.query_string) :
          Execute(query, env)
    \/ \E query \in GatewayQueries : \E env \in EnvsFor(query.query_string) :
          GetOne(query, env)
    \/ \E query \in GatewayQueries : \E env \in EnvsFor(query.query_string) :
          GetAll(query, env)

\* The Options model, and Options instances built and updated directly.
NextOptions ==
    \/ \E kwargs \in ConstructArgs("Options") : ConstructObject("Options", kwargs)
    \/ \E self \in 1..Len(heap) : \E kwargs \in UpdateArgs(heap[self].cls) :
          heap[self].cls = "Options" /\ BaseUpdate(self, kwargs)
    \/ GetAllOptions
    \/ \E name \in OptionNames : GetOption(name)
    \/ \E name \in OptionNames : \E value \in AddValues : AddOption(name, value)
    \/ \E self \in 1..Len(heap) : \E value \in UpdateValues :
          heap[self].cls = "Options" /\ UpdateOption(self, value)
    \/ CreateDemoTable
    \/ DestroyDemoTable

\* The models without a table of their own, and instances of every class
\* built and updated directly.
NextModels ==
    \/ \E reachable \in BOOLEAN : Initialize(reachable)
    \/ Rollback
    \/ CreateDemoTable
    \/ \E cls \in Classes \ {"Options", "SubOptions"} : \E kwargs \in ConstructArgs(cls) :
          ConstructObject(cls, kwargs)
    \/ \E self \in 1..Len(heap) : \E kwargs \in UpdateArgs(heap[self].cls) :
          BaseUpdate(self, kwargs)
    \/ \E env \in EnvsFor(SQL_STATS) : GetStats(env)
    \/ \E point1, point2 \in Corners : \E env \in EnvsFor(SQL_RANDOM) :
          Pick(point1, point2, env)

Next == NextGateway \/ NextOptions

\* The gateway and the Options model.
Spec == Init /\ [][Next]_vars

\* The other models and direct constructions.
SpecModels == Init /\ [][NextModels]_vars

\* Queries built and rendered, and handed to the gateway.
NextQuery ==
    \/ \E i \in DOMAIN QueryCalls :
          NewQuery(QueryCalls[i].query_string, QueryCalls[i].args, QueryCalls[i].kwargs)
    \/ \E i \in DOMAIN QueryCalls : Builds(QueryCalls[i]) /\ ReprQuery(Built(QueryCalls[i]))
    \/ \E reachable \in BOOLEAN : Initialize(reachable)
    \/ Rollback
    \/ \E i \in DOMAIN QueryCalls : \E env \in EnvsFor(QueryCalls[i].query_string) :
          Builds(QueryCalls[i]) /\ Execute(Built(QueryCalls[i]), env)

SpecQuery == Init /\ [][NextQuery]_vars

\* Instances of the classes with a primary key built and updated directly.
NextObjects ==
    \/ \E cls \in {c \in Classes : HasPrimaryKey(c)} : \E kwargs \in ConstructArgs(cls) :
          ConstructObject(cls, kwargs)
    \/ \E self \in 1..Len(heap) : \E kwargs \in UpdateArgs(heap[self].cls) :
          BaseUpdate(self, kwargs)

SpecObjects == Init /\ [][NextObjects]_vars

\* ------------------------------------------------------------- the script
\* A statement of main ended as outcome o: main goes on as m, or, o being
\* an exception, leaves for the finally clause.
MainDo(op, a, o, objs, isnone, m) ==
    /\ ops' = ops
    /\ main' = IF o.exc = NoExc THEN m ELSE [main EXCEPT !.pc = "finally", !.exc = o.exc]
    /\ Effect(op, a, o, objs, isnone, <<>>)

\* Database().initialize(user=DB_LOGIN, ...)
MainInitialize(reachable) ==
    LET db == SingletonNew(World)
        o == DatabaseInitialize(db.w, db.ret, DB_NAME, DB_LOGIN, DB_PASSWORD,
                                DB_HOST, DB_PORT, reachable)
    IN /\ main.pc = "initialize"
       /\ MainDo("initialize", [NoArgs EXCEPT !.self = db.ret, !.reachable = reachable], o,
                 <<>>, o.exc = NoExc, [main EXCEPT !.pc = "create_demo_table"])

\* Options.create_demo_table()
MainCreateDemoTable ==
    LET o == OptionsCreateDemoTable(World, Env0)
    IN /\ main.pc = "create_demo_table"
       /\ MainDo("create_demo_table", [NoArgs EXCEPT !.cls = "Options"], o, <<>>,
                 o.exc = NoExc, [main EXCEPT !.pc = "get_option"])

\* first_option = Options.get_option('first')
MainGetOption ==
    LET o == OptionsGetOption(World, "first", Env0)
    IN /\ main.pc = "get_option"
       /\ MainDo("get_option", [NoArgs EXCEPT !.cls = "Options", !.name = "first"], o,
                 OneObj(o), IsNone(o),
                 [main EXCEPT !.pc = "add_option", !.first_option = o.ret])

\* fifth_option = Options.add_option(name='fifth', value='five')
MainAddOption ==
    LET o == OptionsAddOption(World, "fifth", "five", Env0)
    IN /\ main.pc = "add_option"
       /\ MainDo("add_option",
                 [NoArgs EXCEPT !.cls = "Options", !.name = "fifth", !.value = "five"], o,
                 OneObj(o), FALSE, [main EXCEPT !.pc = "update"])

\* first_option.update(value='The One'); None has no update.
MainUpdate ==
    LET o == IF main.first_option = NoneRef THEN Outcome(World, AttributeError, NoneRef)
             ELSE OptionsUpdate(World, main.first_option, "The One", Env0)
    IN /\ main.pc = "update"
       /\ MainDo("Options.update",
                 [NoArgs EXCEPT !.cls = "Options", !.self = main.first_option,
                                !.value = "The One"], o,
                 <<>>, o.exc = NoExc, [main EXCEPT !.pc = "get_all_options"])

\* option = Options.get_all_options()
MainGetAllOptions ==
    LET o == OptionsGetAllOptions(World, Env0)
    IN /\ main.pc = "get_all_options"
       /\ MainDo("get_all_options", [NoArgs EXCEPT !.cls = "Options"], o, o.ret, FALSE,
                 [main EXCEPT !.pc = "get_stats"])

\* stats = UserTablesStats.get_stats()
MainGetStats(env) ==
    LET o == UserTablesStatsGetStats(World, env)
    IN /\ main.pc = "get_stats"
       /\ MainDo("get_stats", [NoArgs EXCEPT !.cls = "UserTablesStats"], o, o.ret, FALSE,
                 [main EXCEPT !.pc = "pick"])

\* One RandomCoordinates.pick(Point(x=-500, y=-500), Point(x=500, y=500)) of
\* the five, the square scaled to MaxCoord.
MainPick(env) ==
    LET o == RandomCoordinatesPick(World, Point(-MaxCoord, -MaxCoord),
                                   Point(MaxCoord, MaxCoord), env)
    IN /\ main.pc = "pick"
       /\ MainDo("pick", [NoArgs EXCEPT !.cls = "RandomCoordinates"], o, OneObj(o), FALSE,
                 IF main.picks + 1 < Picks THEN [main EXCEPT !.picks = @ + 1]
                 ELSE [main EXCEPT !.picks = @ + 1, !.pc = "destroy_demo_table"])

\* Options.destroy_demo_table(), main's last statement
MainDestroyDemoTable ==
    LET o == OptionsDestroyDemoTable(World, Env0)
    IN /\ main.pc = "destroy_demo_table"
       /\ MainDo("destroy_demo_table", [NoArgs EXCEPT !.cls = "Options"], o, <<>>,
                 o.exc = NoExc, [main EXCEPT !.pc = "finally"])

\* finally: Database().rollback(); then the process exits, with rollback's
\* exception if it raised one.
MainFinally ==
    LET db == SingletonNew(World)
        o == DatabaseRollback(db.w, db.ret)
    IN /\ main.pc = "finally"
       /\ ops' = ops
       /\ main' = [main EXCEPT !.pc = "exit", !.exc = IF o.exc = NoExc THEN @ ELSE o.exc]
       /\ Effect("rollback", [NoArgs EXCEPT !.self = db.ret], o, <<>>, o.exc = NoExc, <<>>)

\* The script starts in a fresh process, the engine holding any table.
InitMain ==
    /\ heap = <<>>
    /\ instance_map = [c \in Classes |-> UnsetMap]
    /\ singleton = NoneRef
    /\ gateways = <<>>
    /\ opened = 0
    /\ committed \in MainTables
    /\ working = committed
    /\ aborted = FALSE
    /\ result = NoResult
    /\ ops = 0
    /\ main = [NotRun EXCEPT !.pc = "initialize", !.before = committed]

NextMain ==
    \/ \E reachable \in BOOLEAN : MainInitialize(reachable)
    \/ MainCreateDemoTable
    \/ MainGetOption
    \/ MainAddOption
    \/ MainUpdate
    \/ MainGetAllOptions
    \/ \E env \in EnvsFor(SQL_STATS) : MainGetStats(env)
    \/ \E env \in EnvsFor(SQL_RANDOM) : MainPick(env)
    \/ MainDestroyDemoTable
    \/ MainFinally

\* python database.py
SpecMain == InitMain /\ [][NextMain]_vars

\* ------------------------------------------------------------ the claims
\* The gateway exists and holds a connection.
Connected == singleton # NoneRef /\ gateways[singleton].connection # NoneRef

\* cls's cache as a lookup of cls._instance_map finds it ({} where None).
CacheOf(im, cls) == IF MapOwner(im, cls) = "" THEN EmptyDict ELSE im[MapOwner(im, cls)].map

\* The last call returned normally.
Returned(r) == r.exc = NoExc

\* The attribute sets the last call constructed instances from, in order:
\* the kwargs of a direct construction, the row of a fetch.
ConstructedFrom(r, table) ==
    CASE r.op = "construct" -> <<r.kwargs>>
      [] r.op \in {"get_option", "add_option"} ->
           <<[name |-> r.name, value |-> table.rows[r.name]]>>
      [] r.op = "get_all_options" ->
           [i \in 1..Len(OrderedNames(table.rows)) |->
              [name |-> OrderedNames(table.rows)[i],
               value |-> table.rows[OrderedNames(table.rows)[i]]]]
      [] OTHER -> <<>>

\* C1: for a keyed class, a key tuple once cached stays mapped to the same
\* instance across every call (construct, update, fetch, commit, rollback),
\* and every construction that returns gives back the instance cached under
\* the key of its attributes, the one cached before the call if there was one:
\* two constructions that agree on the key return the same instance.
C1_KeyedIdentity ==
    [][/\ \A cls \in Classes : \A k \in DOMAIN CacheOf(instance_map, cls) :
            /\ k \in DOMAIN CacheOf(instance_map', cls)
            /\ CacheOf(instance_map', cls)[k] = CacheOf(instance_map, cls)[k]
       /\ (Returned(result') /\ HasPrimaryKey(result'.cls) /\ ~result'.isnone
           /\ result'.op \in {"construct", "get_option", "add_option", "get_all_options"})
          => LET from == ConstructedFrom(result', working')
                 cls == result'.cls
             IN /\ Len(result'.objs) = Len(from)
                /\ \A i \in 1..Len(from) :
                     LET k == CacheKey(cls, from[i])
                     IN /\ k \in DOMAIN CacheOf(instance_map', cls)
                        /\ CacheOf(instance_map', cls)[k] = result'.objs[i]
                        /\ heap'[result'.objs[i]].cls = cls
                        /\ k \in DOMAIN CacheOf(instance_map, cls)
                             => result'.objs[i] = CacheOf(instance_map, cls)[k]
      ]_vars

\* C1 witness: a construction by key "first" with other attributes than the
\* instance was first built with returned that earlier instance.
C1_Witness ==
    /\ result.op = "construct" /\ Returned(result)
    /\ result.kwargs = [name |-> "first", note |-> "n"]
    /\ "value" \in DOMAIN heap[result.objs[1]].dict
    /\ instance_map["Options"].map[<<"first">>] = result.objs[1]

\* The step is a call that returned one instance of a keyed class, built
\* (directly, or from the row of a fetch or an insert) for a key that was cached
\* before the call.
ConstructedCached ==
    /\ result'.op \in {"construct", "get_option", "add_option"}
    /\ Returned(result') /\ ~result'.isnone
    /\ HasPrimaryKey(result'.cls)
    /\ CacheKey(result'.cls, ConstructedFrom(result', working')[1])
          \in DOMAIN CacheOf(instance_map, result'.cls)

\* C2 as claimed: a construction with a cached key leaves the instance's
\* attribute mapping as it was.
C2_AsClaimed ==
    [][ConstructedCached
       => heap'[result'.objs[1]].dict = heap[result'.objs[1]].dict]_vars

\* C2 amended: a construction with a cached key returns the existing instance
\* after merging the given attributes into it (given names added or
\* overwritten, its other attributes kept); nothing is allocated, no other
\* instance and no cache changes.
C2_CachedConstructionMerges ==
    [][ConstructedCached
       => LET from == ConstructedFrom(result', working')[1]
              obj == CacheOf(instance_map, result'.cls)[CacheKey(result'.cls, from)]
          IN /\ result'.objs = <<obj>>
             /\ heap'[obj].dict = DictUpdate(heap[obj].dict, from)
             /\ Len(heap') = Len(heap)
             /\ \A i \in 1..Len(heap) : i # obj => heap'[i] = heap[i]
             /\ instance_map' = instance_map]_vars

\* C2 witness: a construction with a cached key overwrote one attribute of
\* the instance and kept another.
C2_Witness ==
    /\ result.op = "construct" /\ Returned(result)
    /\ result.kwargs = [name |-> "first", value |-> "uno"]
    /\ heap[result.objs[1]].dict = [name |-> "first", value |-> "uno", note |-> "n"]

\* The attributes an update call gives the instance: the kwargs of
\* Object.update, the returned row (name, value) of Options.update.
UpdateGiven(r, h) ==
    IF r.op = "Object.update" THEN r.kwargs
    ELSE [name |-> h[r.self].dict["name"], value |-> r.value]

\* kwargs that have exactly the key k of cls.
KeyKwargs(cls, k) ==
    [n \in {primary_key(cls)[i] : i \in 1..Len(primary_key(cls))} |->
        k[CHOOSE i \in 1..Len(primary_key(cls)) : primary_key(cls)[i] = n]]

\* C3: an update that returns (Object.update, or Options.update whose row
\* came back) merges the given attributes into the instance in place: the
\* same object holds them, its other attributes and every other object are
\* unchanged, the caches are unchanged, so the instance stays under its key,
\* and a construction with that key then returns that instance.
C3_UpdateInPlace ==
    [][(result'.op \in {"Object.update", "Options.update"} /\ Returned(result'))
       => LET self == result'.self
          IN /\ heap'[self].dict = DictUpdate(heap[self].dict, UpdateGiven(result', heap))
             /\ heap'[self].cls = heap[self].cls
             /\ Len(heap') = Len(heap)
             /\ \A i \in 1..Len(heap) : i # self => heap'[i] = heap[i]
             /\ instance_map' = instance_map
             /\ \A k \in DOMAIN CacheOf(instance_map, heap[self].cls) :
                  CacheOf(instance_map, heap[self].cls)[k] = self
                  => Construct([World EXCEPT !.heap = heap', !.instance_map = instance_map'],
                               heap[self].cls, KeyKwargs(heap[self].cls, k)).ret = self
      ]_vars

\* C3 witness: Object.update overwrote value, added note and kept name on an
\* instance that is still the one cached under its key.
C3_Witness ==
    /\ result.op = "Object.update" /\ Returned(result)
    /\ result.kwargs = [value |-> "v2", note |-> "n"]
    /\ heap[result.self].dict = [name |-> "first", value |-> "v2", note |-> "n"]
    /\ instance_map["Options"].map[<<"first">>] = result.self

\* C4: a class without a primary key gives a fresh instance at every
\* construction, direct or from a row of get_stats: each returned instance
\* is a newly allocated object of the class, distinct from every earlier one
\* and from the others returned with it, whatever the attributes; the earlier
\* objects are untouched and the class gets no cache.
C4_UnkeyedFresh ==
    [][(result'.op \in {"construct", "get_stats"} /\ Returned(result')
        /\ primary_key(result'.cls) = <<>>)
       => /\ result'.op = "construct" => Len(result'.objs) = 1
          /\ \A i \in 1..Len(result'.objs) :
               /\ result'.objs[i] > Len(heap)
               /\ result'.objs[i] <= Len(heap')
               /\ heap'[result'.objs[i]].cls = result'.cls
               /\ \A j \in 1..Len(result'.objs) : j # i => result'.objs[j] # result'.objs[i]
          /\ \A i \in 1..Len(heap) : heap'[i] = heap[i]
          /\ instance_map' = instance_map
          /\ ~instance_map'[result'.cls].isset]_vars

\* C4 witness: get_stats returned an instance whose attributes equal those
\* of an earlier instance of the class, and it is another object.
C4_Witness ==
    /\ result.op = "get_stats" /\ Returned(result) /\ Len(result.objs) = 1
    /\ \E i \in 1..Len(heap) :
         /\ i # result.objs[1]
         /\ heap[i].cls = "UserTablesStats"
         /\ heap[i].dict = heap[result.objs[1]].dict

\* The step is a single-row fetch by a name that has no row: on a connected
\* gateway, in a transaction that has not failed, with the table in place.
FetchedAbsent ==
    /\ Connected /\ ~aborted /\ working.exists
    /\ \/ result'.op = "get_option" /\ result'.name \notin DOMAIN working.rows
       \/ /\ result'.op = "get_one" /\ result'.query_string = SQL_SELECT_ONE
          /\ result'.kwargs["name"] \notin DOMAIN working.rows

\* C5: get_one over a query that matches no row returns None and raises
\* nothing; Options.get_option for such a name returns None, allocates
\* nothing and leaves every identity cache as it was.
C5_AbsenceIsNone ==
    [][FetchedAbsent
       => /\ Returned(result') /\ result'.isnone
          /\ result'.objs = <<>> /\ result'.recs = <<>>
          /\ result'.sent = 1
          /\ heap' = heap
          /\ instance_map' = instance_map]_vars

\* C5 witness: get_option("fifth") returned None from the demo table.
C5_Witness ==
    /\ result.op = "get_option" /\ result.name = "fifth"
    /\ Returned(result) /\ result.isnone
    /\ working.exists /\ "first" \in DOMAIN working.rows

\* The calls that need the connection: the gateway's, and the models' calls
\* built on them.
NeedsConnection ==
    {"execute", "get_one", "get_all", "commit", "get_all_options", "get_option",
     "add_option", "Options.update", "create_demo_table", "destroy_demo_table",
     "get_stats", "pick"}

\* C6: while the gateway has never been initialized, execute, get_one,
\* get_all and commit (and every model call built on them) raise the "no
\* connection" error, send no statement, return nothing, and leave the
\* gateway uninitialized and the engine untouched; an initialize that reaches
\* the server then still succeeds.
C6_NoConnectionFailsFast ==
    [][/\ (~Connected /\ result'.op \in NeedsConnection)
          => /\ result'.exc = NoConnection
             /\ result'.sent = 0
             /\ result'.objs = <<>> /\ result'.recs = <<>> /\ ~result'.isnone
             /\ ~Connected'
             /\ opened' = opened /\ committed' = committed
             /\ working' = working /\ aborted' = aborted
             /\ heap' = heap /\ instance_map' = instance_map
       /\ (~Connected /\ result'.op = "initialize" /\ result'.reachable)
          => Returned(result') /\ Connected'
      ]_vars

\* C6 witness: get_all failed with "no connection" on a gateway that earlier
\* calls had constructed and left without a connection.
C6_Witness ==
    /\ result.op = "get_all" /\ result.exc = NoConnection
    /\ singleton # NoneRef /\ ~Connected /\ ops >= 2

\* C7: there is one gateway and at most one connection: every Database()
\* gives the same instance; initialize on a connected gateway raises "already
\* connected", opens nothing and leaves connection, database and user as they
\* were; an initialize whose connect fails leaves the gateway uninitialized; a
\* successful one opens exactly one connection and records database and user.
C7_OneConnection ==
    [][/\ opened' <= 1 /\ Len(gateways') <= 1
       /\ singleton # NoneRef => singleton' = singleton
       /\ result'.op \in {"initialize", "commit", "rollback", "execute", "get_one", "get_all"}
            => result'.self = singleton' /\ singleton' # NoneRef
       /\ (Connected /\ result'.op = "initialize")
            => /\ result'.exc = AlreadyConnected
               /\ opened' = opened /\ gateways' = gateways
               /\ result'.sent = 0
       /\ (~Connected /\ result'.op = "initialize" /\ ~result'.reachable)
            => /\ result'.exc = EngineError
               /\ ~Connected' /\ opened' = opened
               /\ gateways' = <<NewGateway>>
       /\ (~Connected /\ result'.op = "initialize" /\ result'.reachable)
            => /\ Returned(result') /\ opened' = opened + 1
               /\ gateways' = <<[connection |-> opened', database |-> DB_NAME,
                                 user |-> DB_LOGIN]>>
      ]_vars

\* C7 witness: a second initialize failed with "already connected" while the
\* one connection stayed.
C7_Witness ==
    /\ result.op = "initialize" /\ result.exc = AlreadyConnected
    /\ opened = 1 /\ Connected

\* C8: rollback on a gateway that was never initialized raises nothing,
\* sends nothing and changes nothing: the gateway stays uninitialized with
\* its fields as constructed, the engine, the instances and the caches are
\* untouched.
C8_RollbackNoOp ==
    [][(~Connected /\ result'.op = "rollback")
       => /\ Returned(result')
          /\ result'.sent = 0
          /\ gateways' = (IF singleton = NoneRef THEN <<NewGateway>> ELSE gateways)
          /\ ~Connected'
          /\ opened' = opened /\ committed' = committed
          /\ working' = working /\ aborted' = aborted
          /\ heap' = heap /\ instance_map' = instance_map]_vars

\* C8 witness: rollback returned on a gateway that no initialize had connected.
C8_Witness ==
    /\ result.op = "rollback" /\ Returned(result)
    /\ ~Connected /\ opened = 0

\* The step is a direct construction of a keyed class whose kwargs lack a
\* primary-key attribute.
ConstructedWithoutKey ==
    /\ result'.op = "construct"
    /\ \E i \in 1..Len(primary_key(result'.cls)) :
         primary_key(result'.cls)[i] \notin DOMAIN result'.kwargs

\* C9: constructing a keyed class without one of its primary-key attributes
\* raises KeyError, returns and allocates nothing, adds no cache entry and
\* changes no instance.
C9_MissingKeyRaises ==
    [][ConstructedWithoutKey
       => /\ result'.exc = KeyError
          /\ result'.objs = <<>>
          /\ heap' = heap
          /\ \A cls \in Classes :
               CacheOf(instance_map', cls) = CacheOf(instance_map, cls)]_vars

\* C9 witness: a construction without the key raised KeyError while an
\* instance was cached.
C9_Witness ==
    /\ result.op = "construct" /\ result.exc = KeyError
    /\ result.kwargs = [value |-> "one"]
    /\ <<"first">> \in DOMAIN instance_map["Options"].map

\* C10: for the Options model, (a) a fetch by a name that is cached returns
\* the cached instance, so a second fetch returns the instance of the first;
\* (b) update(value) that returns leaves that value on the instance; (c) a
\* fetch by the instance's name right after its update returns that same
\* instance, with the updated value on it.
C10_FetchUpdateFetch ==
    [][/\ (result'.op = "get_option" /\ Returned(result') /\ ~result'.isnone
           /\ <<result'.name>> \in DOMAIN CacheOf(instance_map, "Options"))
          => result'.objs = <<CacheOf(instance_map, "Options")[<<result'.name>>]>>
       /\ (result.op = "get_option" /\ Returned(result) /\ ~result.isnone
           /\ result'.op = "get_option" /\ Returned(result') /\ ~result'.isnone
           /\ result'.name = result.name)
          => result'.objs = result.objs
       /\ (result'.op = "Options.update" /\ Returned(result'))
          => /\ heap'[result'.self].dict["value"] = result'.value
             /\ working'.rows[heap'[result'.self].dict["name"]] = result'.value
       /\ (result.op = "Options.update" /\ Returned(result)
           /\ result'.op = "get_option"
           /\ result'.name = heap[result.self].dict["name"]
           /\ <<result'.name>> \in DOMAIN CacheOf(instance_map, "Options")
           /\ CacheOf(instance_map, "Options")[<<result'.name>>] = result.self)
          => /\ Returned(result') /\ ~result'.isnone
             /\ result'.objs = <<result.self>>
             /\ heap'[result.self].dict["value"] = result.value
      ]_vars

\* C10 witness: after the row "first" was inserted and its instance updated
\* to "The One", a fetch by "first" returned the cached instance, and it holds
\* "The One".
C10_Witness ==
    /\ result.op = "get_option" /\ result.name = "first"
    /\ Returned(result) /\ ~result.isnone
    /\ result.objs = <<instance_map["Options"].map[<<"first">>]>>
    /\ heap[result.objs[1]].dict = [name |-> "first", value |-> "The One"]
    /\ working.rows["first"] = "The One"

\* The model instances, the caches, the gateway and the engine are as before.
WorldUnchanged ==
    /\ heap' = heap
    /\ instance_map' = instance_map
    /\ singleton' = singleton
    /\ gateways' = gateways
    /\ opened' = opened
    /\ committed' = committed
    /\ working' = working
    /\ aborted' = aborted

\* C11: Query(query_string, *args, **kwargs) given both positional and named
\* arguments raises ValueError and yields no Query; given only positional,
\* only named, or no arguments it succeeds, and the Query holds the
\* statement and the arguments it was given, unchanged (the named ones as
\* the one dict of its args).  Nothing else changes.
C11_QueryConstruction ==
    [][result'.op = "Query"
       => /\ WorldUnchanged
          /\ IF Len(result'.args) > 0 /\ DOMAIN result'.kwargs # {}
             THEN result'.exc = ValueError /\ result'.query = NoQuery
             ELSE /\ result'.exc = NoExc
                  /\ result'.query.query_string = result'.query_string
                  /\ IF DOMAIN result'.kwargs # {}
                     THEN /\ result'.query.args = <<result'.kwargs>>
                          /\ result'.query.isdict = <<TRUE>>
                     ELSE /\ result'.query.args = result'.args
                          /\ \A i \in DOMAIN result'.query.isdict :
                                ~result'.query.isdict[i]]_vars

\* C11 witness: a construction with both kinds of arguments was refused.
C11_Witness ==
    /\ result.op = "Query"
    /\ Len(result.args) > 0
    /\ DOMAIN result.kwargs # {}
    /\ result.exc = ValueError

\* The statement with each %(name)s replaced by by_name[name] and the i-th
\* %s by by_position[i].
Substituted(query_string, by_name, by_position) ==
    LET t == Template(query_string)
        nth(i) == Cardinality({j \in 1..i : t[j].ph = "positional"})
    IN Concat([i \in 1..Len(t) |->
                 CASE t[i].ph = "named" -> by_name[t[i].text]
                   [] t[i].ph = "positional" -> by_position[nth(i)]
                   [] OTHER -> t[i].text])

\* A Query of named arguments that serve every placeholder of its statement.
NamedQuery(q) ==
    /\ Len(q.args) = 1
    /\ q.isdict[1]
    /\ PositionalCount(q.query_string) = 0
    /\ Placeholders(q.query_string) \subseteq DOMAIN q.args[1]

\* A Query of n >= 1 positional arguments for the n %s of its statement.
PositionalQuery(q) ==
    /\ Len(q.args) >= 1
    /\ \A i \in DOMAIN q.args : ~q.isdict[i]
    /\ Placeholders(q.query_string) = {}
    /\ PositionalCount(q.query_string) = Len(q.args)

\* C12 as claimed: repr(query) is the statement with each %(name)s
\* replaced by the repr of the named value and, for n >= 1 positional
\* arguments, the i-th %s by the repr of the i-th argument; and execute on
\* an initialized gateway sends the statement once with those same values
\* bound, the i-th argument to the i-th %s.
C12_AsClaimed ==
    [][LET q == result'.query
       IN /\ (result'.op = "repr" /\ NamedQuery(q))
               => /\ result'.exc = NoExc
                  /\ result'.text =
                       Substituted(q.query_string,
                                   [n \in DOMAIN q.args[1] |-> Repr(n, q.args[1][n])], <<>>)
          /\ (result'.op = "repr" /\ PositionalQuery(q))
               => /\ result'.exc = NoExc
                  /\ result'.text =
                       Substituted(q.query_string, EmptyDict,
                                   [i \in DOMAIN q.args |-> Repr("", q.args[i])])
          /\ (result'.op = "execute" /\ Connected /\ NamedQuery(q))
               => /\ Len(result'.bound) = 1
                  /\ result'.bound[1].vars = q.args[1]
          /\ (result'.op = "execute" /\ Connected /\ PositionalQuery(q))
               => /\ Len(result'.bound) = 1
                  /\ result'.bound[1].vars = q.args]_vars

\* The result set the engine gives the last call's statement in the state
\* before the call: its rows, in order, and its column names.
ResultSet == EngineRun(working, result'.query_string, result'.kwargs, Env0).cursor

\* C13: get_all returns one record per row of the statement's result set,
\* in the rows' order: as many records as rows, the i-th record mapping
\* each reported column name to the i-th row's value in that column; an
\* empty result set gives the empty sequence.
C13_GetAllRecords ==
    [][(result'.op = "get_all" /\ Returned(result'))
       => /\ Len(result'.recs) = Len(ResultSet.rows)
          /\ \A i \in 1..Len(ResultSet.rows) :
                /\ DOMAIN result'.recs[i] =
                     {ResultSet.description[j] : j \in 1..Len(ResultSet.description)}
                /\ \A j \in 1..Len(ResultSet.description) :
                      result'.recs[i][ResultSet.description[j]] = ResultSet.rows[i][j]]_vars

\* C13 witness: get_all returned the records of several rows.
C13_Witness ==
    /\ result.op = "get_all"
    /\ Returned(result)
    /\ Len(result.recs) >= 2

\* The named arguments a Query holds: the dicts among its args; and its
\* positional arguments: the others.
NamedArgs(q) == {i \in DOMAIN q.args : q.isdict[i]}
PositionalArgs(q) == {i \in DOMAIN q.args : ~q.isdict[i]}

\* C14 as claimed: every constructed Query, those of the models' call sites
\* included, has exactly one of positional and named arguments non-empty.
C14_AsClaimed ==
    [][(result'.op = "Query" /\ Returned(result'))
       => (NamedArgs(result'.query) # {}) # (PositionalArgs(result'.query) # {})]_vars

\* C14: every constructed Query, those of the models' call sites included,
\* has at most one of positional and named arguments non-empty, never
\* both; both are empty exactly when the Query was given no argument, as
\* for CREATE TABLE, DROP TABLE and the two SELECTs without placeholders.
C14_AtMostOneKind ==
    [][(result'.op = "Query" /\ Returned(result'))
       => /\ ~(NamedArgs(result'.query) # {} /\ PositionalArgs(result'.query) # {})
          /\ (NamedArgs(result'.query) = {} /\ PositionalArgs(result'.query) = {})
               <=> (Len(result'.args) = 0 /\ DOMAIN result'.kwargs = {})]_vars

\* C14 witness: a Query was constructed without any argument.
C14_Witness ==
    /\ result.op = "Query"
    /\ Returned(result)
    /\ result.query.query_string = SQL_DROP
    /\ NamedArgs(result.query) = {}
    /\ PositionalArgs(result.query) = {}

\* The gateway is connected, its transaction has not failed, the options
\* table exists and holds no row under name.
RowAbsent(name) ==
    /\ Connected
    /\ ~aborted
    /\ working.exists
    /\ name \notin DOMAIN working.rows

\* C15 as claimed: a Model operation built on get_one takes a statement
\* that returns no row as a valid outcome: get_option of an absent name
\* returns normally, and Options.update on an instance whose row is absent
\* returns normally and leaves the instances and the caches as they were.
C15_AsClaimed ==
    [][/\ (result'.op = "get_option" /\ RowAbsent(result'.name)) => Returned(result')
       /\ (/\ result'.op = "Options.update"
           /\ "name" \in DOMAIN heap[result'.self].dict
           /\ RowAbsent(heap[result'.self].dict.name))
          => /\ Returned(result')
             /\ heap' = heap
             /\ instance_map' = instance_map]_vars

\* C16 as claimed: on an initialized gateway each execute, get_one and
\* get_all sends its statement exactly once; when that fails it is with
\* the engine's error, and then no record is returned and no instance and
\* no cache changes.
C16_AsClaimed ==
    [][(Connected /\ result'.op \in {"execute", "get_one", "get_all"})
       => /\ result'.sent = 1
          /\ result'.exc \in {NoExc, EngineError}
          /\ result'.exc = EngineError
               => /\ result'.recs = <<>>
                  /\ ~result'.isnone
                  /\ heap' = heap
                  /\ instance_map' = instance_map]_vars

\* C17: the script never commits, and however main ends (by returning or
\* by raising at any statement, a failed initialize included) the finally
\* clause's rollback runs last and raises nothing, so that at exit the
\* engine's committed table is the one from before the run and nothing of
\* the run is left in an open transaction.
C17_MainLeavesNoTrace ==
    /\ main.pc # "" => committed = main.before
    /\ main.pc = "exit"
         => /\ result.op = "rollback"
            /\ result.exc = NoExc
            /\ Connected => (working = committed /\ ~aborted)

\* C17 witness: main returned normally, having sent its statements and
\* picked its coordinates, and the process has exited after the rollback.
C17_Witness ==
    /\ main.pc = "exit"
    /\ main.exc = NoExc
    /\ main.picks = Picks
    /\ Connected

\* The classes with a primary key.
Keyed == {c \in Classes : HasPrimaryKey(c)}

\* C18 as claimed: constructing an instance of a class with a primary key
\* returns an instance of that class and leaves the cache of every other
\* such class as it was, also for a class and a subclass of it that is
\* first constructed when the parent's cache exists.
C18_AsClaimed ==
    [][(result'.op = "construct" /\ result'.cls \in Keyed /\ Returned(result'))
       => /\ heap'[result'.objs[1]].cls = result'.cls
          /\ \A c \in Keyed \ {result'.cls} : instance_map'[c] = instance_map[c]]_vars

\* C19 as claimed: every instance in a cache holds, under the names of its
\* class's primary key and in their order, the key tuple it is cached
\* under.
C19_AsClaimed ==
    \A c \in Keyed : \A k \in DOMAIN instance_map[c].map :
        LET obj == instance_map[c].map[k]
        IN /\ \A i \in 1..Len(primary_key(c)) : primary_key(c)[i] \in DOMAIN heap[obj].dict
           /\ CacheKey(c, heap[obj].dict) = k

\* C20: commit and rollback leave every instance and every cache as they
\* were, and the gateway's connection too: they touch the engine's
\* transaction only.  An instance in a cache keeps what it took from
\* statements that a rollback discards.
C20_TransactionFrame ==
    [][result'.op \in {"commit", "rollback"}
       => /\ heap' = heap
          /\ instance_map' = instance_map
          /\ opened' = opened
          /\ singleton # NoneRef => (singleton' = singleton /\ gateways' = gateways)]_vars

\* C20 witness: after a rollback a cached Options instance still holds the
\* name and value of a row that the rollback discarded.
C20_Witness ==
    /\ result.op = "rollback"
    /\ Returned(result)
    /\ Connected
    /\ "fifth" \notin DOMAIN working.rows
    /\ <<"fifth">> \in DOMAIN CacheOf(instance_map, "Options")
    /\ LET obj == CacheOf(instance_map, "Options")[<<"fifth">>]
       IN /\ heap[obj].dict.name = "fifth"
          /\ heap[obj].dict.value = "five"

====
